---- MODULE Spec2Model ----
(***************************************************************************)
(* Model of the betting opportunity analysis engine of                     *)
(* src/betting_model.py (class KillsBettingModel), of the dashboard that   *)
(* calls it (src/streamlit_app.py), of the odds loader                     *)
(* (src/cuotas_module.py) and of the scraper's record extraction           *)
(* (src/lol_scraper.py).                                                   *)
(*                                                                         *)
(* Floating point values are modelled in fixed point, one scale per kind   *)
(* of quantity:                                                            *)
(*   avg_kills            tenths            (RateScale  = 10)              *)
(*   odds_over/odds_under hundredths        (OddsScale  = 100)             *)
(*   line_over/line_under millionths        (LineScale  = 10^6)            *)
(*   probabilities        millionths        (ProbScale  = 10^6)            *)
(*   expected values      1e-8              (EvScale = ProbScale*OddsScale)*)
(*   values after round(x, 4)   ten-thousandths (an integer count of 1e-4) *)
(* A table cell is a record [k, v]: k is what the cell holds ("num" a      *)
(* float, "str" a numeric text such as '3.8', "bad" a non-numeric text,    *)
(* "nan" a missing value, "inf" the float +inf) and v its scaled value.    *)
(***************************************************************************)
EXTENDS Integers, Sequences, FiniteSets, TLC

VARIABLES
    df,             \* the input batch: [columns, rows]
    pc,             \* position of the caller in analyze_betting_opportunities
    is_valid,       \* betting_model.py:174
    errors,         \* betting_model.py:174
    idx,            \* number of rows the loop of line 187 has consumed
    results,        \* betting_model.py:184
    warnings,       \* what logger.warning logged during the call
    ret,            \* what analyze_betting_opportunities returned
    ev_over,        \* betting_model.py:203 / parameter of determine_best_bet
    ev_under,       \* betting_model.py:204 / parameter of determine_best_bet
    best_bet_info,  \* betting_model.py:207
    stats,          \* what get_summary_statistics returned to the caller
    args,           \* the arguments of a function that is called on its own
    out,            \* what that function returned
    session_state,  \* streamlit_app.py:66-73, st.session_state of the dashboard
    page,           \* what the current run of the dashboard script rendered
    previous        \* the previous call of analyze_betting_opportunities

vars == <<df, pc, is_valid, errors, idx, results, warnings, ret,
          ev_over, ev_under, best_bet_info, stats, args, out,
          session_state, page, previous>>

(***************************************************************************)
(* Bounds of the model.                                                    *)
(***************************************************************************)
MaxRows == 2

MaxEv == 4

(***************************************************************************)
(* Scales of the fixed point representation.                               *)
(***************************************************************************)
RateScale == 10^1

OddsScale == 10^2

LineScale == 10^6

ProbScale == 10^6

EvScale == ProbScale * OddsScale

None == [none |-> TRUE]

Abs(x) == IF x < 0 THEN -x ELSE x

(***************************************************************************)
(* Cells.                                                                  *)
(***************************************************************************)
Num(v) == [k |-> "num", v |-> v]

Str(v) == [k |-> "str", v |-> v]

Bad == [k |-> "bad", v |-> 0]

NaN == [k |-> "nan", v |-> 0]

Inf == [k |-> "inf", v |-> 0]

\* self.required_columns
required_columns == {"player", "avg_kills", "odds_over", "line_over",
                     "odds_under", "line_under"}

\* numeric_cols, in the order the coercion loop visits them
numeric_cols == <<"avg_kills", "odds_over", "line_over", "odds_under", "line_under">>

(***************************************************************************)
(* Diagnostics.  A message is [msg, cols, rows]: which message it is, the  *)
(* column names its text names and the row indexes its text names.         *)
(***************************************************************************)
MsgMissing(missing_cols) == [msg |-> "Columnas faltantes", cols |-> missing_cols, rows |-> {}]

MsgEmpty == [msg |-> "DataFrame vacio", cols |-> {}, rows |-> {}]

MsgNonNumeric(col, null_indices) ==
    [msg |-> "Valores no numericos", cols |-> {col}, rows |-> null_indices]

MsgRate == [msg |-> "avg_kills debe ser mayor que 0", cols |-> {}, rows |-> {}]

MsgOdds == [msg |-> "Las cuotas (odds) deben ser mayores que 1.0", cols |-> {}, rows |-> {}]

MsgLines == [msg |-> "Las lineas deben ser no negativas", cols |-> {}, rows |-> {}]

MsgMismatch == [msg |-> "line_over y line_under deben ser iguales", cols |-> {}, rows |-> {}]

MsgException == [msg |-> "Error en validacion de valores", cols |-> {}, rows |-> {}]

\* the warning of line 232 for the row with the given index
RowWarning(i) == [msg |-> "Error procesando jugador en fila", cols |-> {}, rows |-> {i}]

(***************************************************************************)
(* validate_data                                                           *)
(***************************************************************************)
RowIndex(d) == 1 .. Len(d.rows)

\* pd.to_numeric(..., errors='coerce').isnull(): a non-numeric text and a
\* missing value both come out null
IsNull(cell) == cell.k \in {"bad", "nan"}

\* df[numeric_values.isnull()].index.tolist()
NullIndices(d, col) == {i \in RowIndex(d) : IsNull(d.rows[i][col])}

\* the loop of lines 51-57: one message per column that has a null
CoercionErrors(d) ==
    SelectSeq([j \in 1 .. Len(numeric_cols) |->
                  MsgNonNumeric(numeric_cols[j], NullIndices(d, numeric_cols[j]))],
              LAMBDA m : m.rows # {})

\* a column that holds a Python str has dtype object; comparing it with a
\* number, or handing it to np.allclose, raises TypeError
IsObject(d, col) == \E i \in RowIndex(d) : d.rows[i][col].k \in {"str", "bad"}

\* (df[col] <= bound).any(): "TypeError", "True" or "False"
AnyLEStrict(d, col, bound) ==
    IF IsObject(d, col) THEN "TypeError"
    ELSE IF \E i \in RowIndex(d) : d.rows[i][col].k = "num" /\ d.rows[i][col].v < bound
         THEN "True" ELSE "False"

AnyLE(d, col, bound) ==
    IF IsObject(d, col) THEN "TypeError"
    ELSE IF \E i \in RowIndex(d) : d.rows[i][col].k = "num" /\ d.rows[i][col].v <= bound
         THEN "True" ELSE "False"

\* (df[col] < bound).any()
AnyLT(d, col, bound) ==
    IF IsObject(d, col) THEN "TypeError"
    ELSE IF \E i \in RowIndex(d) : d.rows[i][col].k = "num" /\ d.rows[i][col].v < bound
         THEN "True" ELSE "False"

\* Python's  a or b : b is evaluated only when a is False
OrElse(a, b) == IF a = "False" THEN b ELSE a

\* absolute tolerance passed at line 74 (1e-6, in LineScale units)
Atol == 1

\* numpy's default relative tolerance, 1e-5, as its inverse
RtolInv == 10^5

\* np.isclose of two cells of float columns:
\* |a - b| <= atol + rtol * |b| for finite values, equality for infinite
\* ones, never for a NaN
IsClose(a, b) ==
    IF a.k = "nan" \/ b.k = "nan" THEN FALSE
    ELSE IF a.k = "inf" \/ b.k = "inf" THEN a.k = b.k
    ELSE Abs(a.v - b.v) - Atol <= Abs(b.v) \div RtolInv

\* np.allclose(df['line_over'], df['line_under'], atol=1e-6)
AllClose(d) ==
    IF IsObject(d, "line_over") \/ IsObject(d, "line_under") THEN "TypeError"
    ELSE IF \A i \in RowIndex(d) : IsClose(d.rows[i]["line_over"], d.rows[i]["line_under"])
         THEN "True" ELSE "False"

\* the try block of lines 60-78: the rules are checked in order and the
\* first TypeError ends the block with the message of line 78
BusinessErrors(d) ==
    LET c1 == AnyLE(d, "avg_kills", 0)
        c2 == OrElse(AnyLE(d, "odds_over", OddsScale), AnyLE(d, "odds_under", OddsScale))
        c3 == OrElse(AnyLT(d, "line_over", 0), AnyLT(d, "line_under", 0))
        c4 == AllClose(d)
        e1 == IF c1 = "True" THEN <<MsgRate>> ELSE <<>>
        e2 == e1 \o (IF c2 = "True" THEN <<MsgOdds>> ELSE <<>>)
        e3 == e2 \o (IF c3 = "True" THEN <<MsgLines>> ELSE <<>>)
        e4 == e3 \o (IF c4 = "False" THEN <<MsgMismatch>> ELSE <<>>)
    IN  IF c1 = "TypeError" THEN <<MsgException>>
        ELSE IF c2 = "TypeError" THEN e1 \o <<MsgException>>
        ELSE IF c3 = "TypeError" THEN e2 \o <<MsgException>>
        ELSE IF c4 = "TypeError" THEN e3 \o <<MsgException>>
        ELSE e4

\* lines 48-80
ContentErrors(d) == CoercionErrors(d) \o BusinessErrors(d)

\* validate_data without the early returns of lines 41 and 46
validate_data_no_fail_fast(d) ==
    LET missing_cols == required_columns \ d.columns
        errs == (IF missing_cols # {} THEN <<MsgMissing(missing_cols)>> ELSE <<>>)
                \o (IF Len(d.rows) = 0 THEN <<MsgEmpty>> ELSE <<>>)
                \o (IF missing_cols = {} /\ Len(d.rows) > 0 THEN ContentErrors(d) ELSE <<>>)
    IN  [valid |-> Len(errs) = 0, errors |-> errs]

validate_data(d) ==
    LET missing_cols == required_columns \ d.columns
    IN  IF missing_cols # {}
        THEN [valid |-> FALSE, errors |-> <<MsgMissing(missing_cols)>>]
        ELSE IF Len(d.rows) = 0
        THEN [valid |-> FALSE, errors |-> <<MsgEmpty>>]
        ELSE [valid |-> Len(ContentErrors(d)) = 0, errors |-> ContentErrors(d)]

(***************************************************************************)
(* Per-record scoring                                                      *)
(***************************************************************************)
\* e^(-rate), in ProbScale units, for the rates of the model's batches
ExpNeg(rate) ==
    CASE rate = 0 -> ProbScale
      [] rate = 20 -> 135335
      [] rate = 38 -> 22371

RECURSIVE CdfAcc(_, _, _, _, _)
\* sum of the Poisson terms i..k, given term i-1 and the sum up to it
CdfAcc(i, k, rate, term, sum) ==
    IF i > k THEN sum
    ELSE LET t == (term * rate) \div (RateScale * i)
         IN  CdfAcc(i + 1, k, rate, t, sum + t)

\* scipy.stats.poisson.cdf(k, rate): 0 below the support, clipped to [0, 1]
PoissonCdf(k, rate) ==
    IF k < 0 THEN 0
    ELSE LET s == CdfAcc(1, k, rate, ExpNeg(rate), ExpNeg(rate))
         IN  IF s > ProbScale THEN ProbScale ELSE s

\* int(np.floor(line)) raises for an infinite or a NaN line
FloorRaises(line) == line.k \in {"inf", "nan"}

\* calculate_poisson_probabilities with np.ceil in the place of np.floor
calculate_poisson_probabilities_ceil(avg_kills, line) ==
    LET line_ceil == -((-line) \div LineScale)
        p_under == PoissonCdf(line_ceil, avg_kills)
    IN  [p_over |-> ProbScale - p_under, p_under |-> p_under]

\* calculate_poisson_probabilities, for a line whose floor exists
calculate_poisson_probabilities(avg_kills, line) ==
    LET line_floor == line \div LineScale
        p_under == PoissonCdf(line_floor, avg_kills)
    IN  [p_over |-> ProbScale - p_under, p_under |-> p_under]

\* the expected profit alone, without the stake that a lost bet costs
calculate_expected_value_no_stake(prob_real, odds) == prob_real * (odds - OddsScale)

\* calculate_expected_value: prob_real in ProbScale, odds in OddsScale,
\* the result in EvScale
calculate_expected_value(prob_real, odds) == (prob_real * odds) - EvScale

\* odds_to_implied_probability, in ProbScale units (to the nearest unit)
odds_to_implied_probability(odds) == (2 * EvScale + odds) \div (2 * odds)

\* determine_best_bet reporting the EV of the side it did not pick
determine_best_bet_other_ev(evo, evu) ==
    IF evo > evu
    THEN [best_bet |-> "Over", best_ev |-> evu, is_profitable |-> evu > 0]
    ELSE [best_bet |-> "Under", best_ev |-> evo, is_profitable |-> evo > 0]

determine_best_bet_ge(evo, evu) ==
    IF evo >= evu
    THEN [best_bet |-> "Over", best_ev |-> evo, is_profitable |-> evo > 0]
    ELSE [best_bet |-> "Under", best_ev |-> evu, is_profitable |-> evu > 0]

determine_best_bet(evo, evu) ==
    IF evo > evu
    THEN [best_bet |-> "Over", best_ev |-> evo, is_profitable |-> evo > 0]
    ELSE [best_bet |-> "Under", best_ev |-> evu, is_profitable |-> evu > 0]

\* round half to even of x to a multiple of unit, as a count of units
RoundHalfEven(x, unit) ==
    LET q == x \div unit
        r == x % unit
    IN  IF 2 * r < unit THEN q
        ELSE IF 2 * r > unit THEN q + 1
        ELSE IF q % 2 = 0 THEN q ELSE q + 1

\* truncation to 4 decimals instead of rounding
Truncate4(x, scale) == x \div (scale \div 10^4)

\* round(x, 4) of a value held in the given scale: a count of 1e-4
Round4(x, scale) == RoundHalfEven(x, scale \div 10^4)

\* float(cell) raises ValueError for a non-numeric text (and row[col] raises
\* KeyError for a column the table lacks)
FloatRaises(cell) == cell.k = "bad"

\* the body of the try block of lines 189-229 for one row:
\* [raised |-> TRUE] when it raises, else the locals and the appended record
ScoreRow(row) ==
    IF \/ ~({"player", "avg_kills", "odds_over", "odds_under", "line_over"} \subseteq DOMAIN row)
       \/ FloatRaises(row["avg_kills"]) \/ FloatRaises(row["odds_over"])
       \/ FloatRaises(row["odds_under"]) \/ FloatRaises(row["line_over"])
       \/ FloorRaises(row["line_over"])
    THEN [raised |-> TRUE]
    ELSE
    LET avg_kills == row["avg_kills"].v
        odds_over == row["odds_over"].v
        odds_under == row["odds_under"].v
        line == row["line_over"].v
        probs == calculate_poisson_probabilities(avg_kills, line)
        evo == calculate_expected_value(probs.p_over, odds_over)
        evu == calculate_expected_value(probs.p_under, odds_under)
        info == determine_best_bet(evo, evu)
        implied_prob_over == odds_to_implied_probability(odds_over)
        implied_prob_under == odds_to_implied_probability(odds_under)
    IN  [raised |-> FALSE, ev_over |-> evo, ev_under |-> evu, info |-> info,
         result |->
           [player |-> row["player"],
            avg_kills |-> avg_kills,
            line |-> line,
            p_over |-> Round4(probs.p_over, ProbScale),
            p_under |-> Round4(probs.p_under, ProbScale),
            EV_over |-> Round4(evo, EvScale),
            EV_under |-> Round4(evu, EvScale),
            best_bet |-> info.best_bet,
            best_ev |-> Round4(info.best_ev, EvScale),
            is_profitable |-> info.is_profitable,
            implied_prob_over |-> Round4(implied_prob_over, ProbScale),
            implied_prob_under |-> Round4(implied_prob_under, ProbScale),
            edge_over |-> Round4(probs.p_over - implied_prob_over, ProbScale),
            edge_under |-> Round4(probs.p_under - implied_prob_under, ProbScale)]]

(***************************************************************************)
(* The batch-level sort of line 243.                                       *)
(***************************************************************************)
Bijections(n) == {f \in [1 .. n -> 1 .. n] : \A i, j \in 1 .. n : f[i] = f[j] => i = j}

TablePermutations(s) == {[i \in 1 .. Len(s) |-> s[f[i]]] : f \in Bijections(Len(s))}

IsAscending(t) == \A i \in 1 .. Len(t) - 1 : t[i].best_ev <= t[i + 1].best_ev

IsDescending(t) == \A i \in 1 .. Len(t) - 1 : t[i].best_ev >= t[i + 1].best_ev

\* the same sort with ascending=True
SortedTablesAscending(s) == {t \in TablePermutations(s) : IsAscending(t)}

\* sort_values('best_ev', ascending=False) with the default (unstable)
\* sort kind: every arrangement of the rows that is descending by best_ev
SortedTables(s) == {t \in TablePermutations(s) : IsDescending(t)}

(***************************************************************************)
(* The batches the model is run on.                                        *)
(***************************************************************************)
\* a row of valid cells; the player column is filled in by Batch
Row(rate, oo, lo, ou, lu) ==
    [avg_kills |-> rate, odds_over |-> oo, line_over |-> lo,
     odds_under |-> ou, line_under |-> lu]

\* {rate 3.8, line 3.5, odds 1.85 / 1.95}
RowA == Row(Num(38), Num(185), Num(3500000), Num(195), Num(3500000))

\* rows every rule accepts
BaseRows ==
    { RowA,
      Row(Num(38), Num(210), Num(3500000), Num(195), Num(3500000)),
      Row(Num(38), Num(185), Num(6500000), Num(110), Num(6500000)),
      Row(Num(20), Num(185), Num(3500000), Num(195), Num(3500000)),
      Row(Num(38), Num(185), Num(50000000), Num(195), Num(50000000)),
      Row(Num(38), Num(185), Inf, Num(195), Inf),
      Row(Num(38), Num(151), Num(500000), Num(110), Num(500000)),
      Row(Num(38), Num(110), Num(5500000), Num(181), Num(5500000)) }

\* the values that replace one cell of RowA
Alternatives(col) ==
    CASE col = "avg_kills" -> {Num(0), Str(38), Bad}
      [] col = "odds_over" -> {Num(100), Bad}
      [] col = "odds_under" -> {Num(100), Bad}
      [] col = "line_over" -> {Bad, NaN}
      [] col = "line_under" -> {Bad, Num(4000000), Num(3500001), Num(3500002)}

DefectRows ==
    UNION { { [RowA EXCEPT ![numeric_cols[j]] = v] : v \in Alternatives(numeric_cols[j]) } :
                j \in 1 .. Len(numeric_cols) }
    \cup { Row(Num(38), Num(185), Num(-500000), Num(195), Num(-500000)),
           Row(Num(38), Num(185), Num(50000000), Num(195), Num(50000400)),
           Row(Num(38), Num(185), Num(3999999), Num(195), Num(4000000)) }

RowValues == BaseRows \cup DefectRows

\* the column sets of the batches: all required columns, with an extra
\* column, with required columns absent, and no column at all
ColumnSets ==
    { required_columns,
      required_columns \cup {"extra"},
      required_columns \ {"line_under"},
      required_columns \ {"avg_kills", "odds_over"},
      {} }

\* the name of the i-th player
Player(i) == [k |-> "name", v |-> i]

\* the rows of the batches that lack required columns
FewRows == {RowA, [RowA EXCEPT !["avg_kills"] = Num(0)], [RowA EXCEPT !["odds_over"] = Bad]}

\* the table with the given columns whose i-th row holds rows[i] and the
\* player i
Batch(columns, rows) ==
    [columns |-> columns,
     rows |-> [i \in 1 .. Len(rows) |->
                 [c \in columns |->
                     IF c = "player" THEN Player(i)
                     ELSE IF c = "extra" THEN Bad
                     ELSE rows[i][c]]]]

RowSeqs(S) == UNION {[1 .. n -> S] : n \in 0 .. MaxRows}

Batches ==
    { Batch(cols, rows) : cols \in {required_columns, required_columns \cup {"extra"}},
                          rows \in RowSeqs(RowValues) }
    \cup { Batch(cols, rows) : cols \in ColumnSets \ {{}}, rows \in RowSeqs(FewRows) }
    \cup { Batch({}, <<>>) }

NoStats == [unset |-> TRUE]

NoArgs == [unset |-> TRUE]

NoInfo == [best_bet |-> "unset", best_ev |-> 0, is_profitable |-> FALSE]

Pending == [kind |-> "pending", rows |-> <<>>]

ReturnedNone == [kind |-> "None", rows |-> <<>>]

DataFrame(rows) == [kind |-> "DataFrame", rows |-> rows]

\* initialize_session_state: nothing analysed yet (results_df None)
InitialSession == [analysis_performed |-> FALSE, results_df |-> ReturnedNone]

\* a page on which nothing about an analysis was rendered
BlankPage == [message |-> "none", diagnostics |-> <<>>, table |-> ReturnedNone, stats |-> NoStats]

\* no call of analyze_betting_opportunities came before this one
NoCall == [called |-> FALSE, df |-> [columns |-> {}, rows |-> <<>>],
           results |-> <<>>, ret |-> Pending]

(***************************************************************************)
(* get_summary_statistics                                                  *)
(***************************************************************************)
\* a quotient of two integers, kept exact
Ratio(num, den) == [num |-> num, den |-> den]

RECURSIVE SumTo(_, _)
SumTo(f, n) == IF n = 0 THEN 0 ELSE f[n] + SumTo(f, n - 1)

\* results_df[col].sum()
ColumnSum(t, col) == SumTo([i \in 1 .. Len(t) |-> t[i][col]], Len(t))

\* results_df[col].max() and .min()
ColumnMax(t, col) == CHOOSE x \in {t[i][col] : i \in 1 .. Len(t)} :
                        \A i \in 1 .. Len(t) : x >= t[i][col]

ColumnMin(t, col) == CHOOSE x \in {t[i][col] : i \in 1 .. Len(t)} :
                        \A i \in 1 .. Len(t) : x <= t[i][col]

\* the dictionary {} of line 260
EmptyDict == [key \in {} |-> 0]

\* get_summary_statistics: a dictionary, as a function of its keys
get_summary_statistics(t) ==
    IF Len(t) = 0 THEN EmptyDict
    ELSE LET profitable == Cardinality({i \in 1 .. Len(t) : t[i].is_profitable})
         IN  [total_players |-> Len(t),
              profitable_opportunities |-> profitable,
              profitability_rate |-> Ratio(profitable, Len(t)),
              best_ev |-> ColumnMax(t, "best_ev"),
              worst_ev |-> ColumnMin(t, "best_ev"),
              avg_ev |-> Ratio(ColumnSum(t, "best_ev"), Len(t)),
              over_bets |-> Cardinality({i \in 1 .. Len(t) : t[i].best_bet = "Over"}),
              under_bets |-> Cardinality({i \in 1 .. Len(t) : t[i].best_bet = "Under"}),
              avg_line |-> Ratio(ColumnSum(t, "line"), Len(t)),
              avg_kills |-> Ratio(ColumnSum(t, "avg_kills"), Len(t))]

(***************************************************************************)
(* analyze_betting_opportunities                                           *)
(***************************************************************************)
Init ==
    /\ df \in Batches
    /\ pc = "start"
    /\ is_valid = FALSE
    /\ errors = <<>>
    /\ idx = 0
    /\ results = <<>>
    /\ warnings = <<>>
    /\ ret = Pending
    /\ ev_over = 0
    /\ ev_under = 0
    /\ best_bet_info = NoInfo
    /\ stats = NoStats
    /\ args = NoArgs
    /\ out = NoArgs
    /\ session_state = InitialSession
    /\ page = BlankPage
    /\ previous = NoCall

GateNeverRejects(valid) == FALSE

\* if not is_valid: ... return None
GateRejects(valid) == ~valid

\* pd.to_numeric(cell, errors='coerce')
CoerceCell(cell) ==
    IF cell.k = "str" THEN Num(cell.v)
    ELSE IF cell.k = "bad" THEN NaN
    ELSE cell

\* the rejecting gate with a validate_data that writes the coerced columns
\* back into the caller's table
ValidateRejectCoercesInPlace ==
    /\ pc = "start"
    /\ GateRejects(validate_data(df).valid)
    /\ is_valid' = validate_data(df).valid
    /\ errors' = validate_data(df).errors
    /\ ret' = ReturnedNone
    /\ pc' = "done"
    /\ df' = [df EXCEPT !.rows =
                 [i \in 1 .. Len(df.rows) |->
                     [c \in df.columns |->
                         IF required_columns \subseteq df.columns
                            /\ \E j \in 1 .. Len(numeric_cols) : numeric_cols[j] = c
                         THEN CoerceCell(df.rows[i][c])
                         ELSE df.rows[i][c]]]]
    /\ UNCHANGED <<idx, results, warnings, ev_over, ev_under, best_bet_info, stats, args, out,
                   session_state, page, previous>>

\* lines 174-179: validation fails and the call returns None
ValidateReject ==
    /\ pc = "start"
    /\ GateRejects(validate_data(df).valid)
    /\ is_valid' = validate_data(df).valid
    /\ errors' = validate_data(df).errors
    /\ ret' = ReturnedNone
    /\ pc' = "done"
    /\ UNCHANGED <<df, idx, results, warnings, ev_over, ev_under, best_bet_info, stats, args, out,
                   session_state, page, previous>>

\* lines 174-184: validation passes and the loop starts
ValidateAccept ==
    /\ pc = "start"
    /\ ~GateRejects(validate_data(df).valid)
    /\ is_valid' = validate_data(df).valid
    /\ errors' = validate_data(df).errors
    /\ results' = <<>>
    /\ pc' = "loop"
    /\ UNCHANGED <<df, idx, warnings, ret, ev_over, ev_under, best_bet_info, stats, args, out,
                   session_state, page, previous>>

\* lines 187-229: one iteration that appends a record
ProcessRow ==
    /\ pc = "loop"
    /\ idx < Len(df.rows)
    /\ ~ScoreRow(df.rows[idx + 1]).raised
    /\ LET s == ScoreRow(df.rows[idx + 1])
       IN  /\ ev_over' = s.ev_over
           /\ ev_under' = s.ev_under
           /\ best_bet_info' = s.info
           /\ results' = Append(results, s.result)
    /\ idx' = idx + 1
    /\ UNCHANGED <<df, pc, is_valid, errors, warnings, ret, stats, args, out,
                   session_state, page, previous>>

\* an iteration that raises and ends the call without a result
SkipRowAborts ==
    /\ pc = "loop"
    /\ idx < Len(df.rows)
    /\ ScoreRow(df.rows[idx + 1]).raised
    /\ ret' = ReturnedNone
    /\ pc' = "done"
    /\ UNCHANGED <<df, is_valid, errors, idx, results, warnings, ev_over, ev_under, best_bet_info, stats, args, out,
                   session_state, page, previous>>

\* lines 187-233: one iteration that raises; the row is skipped with a warning
SkipRow ==
    /\ pc = "loop"
    /\ idx < Len(df.rows)
    /\ ScoreRow(df.rows[idx + 1]).raised
    /\ warnings' = Append(warnings, RowWarning(idx + 1))
    /\ idx' = idx + 1
    /\ UNCHANGED <<df, pc, is_valid, errors, results, ret, ev_over, ev_under, best_bet_info, stats, args, out,
                   session_state, page, previous>>

\* the end of the loop handing back an empty table when no record survived
ReturnEmptyTable ==
    /\ pc = "loop"
    /\ idx = Len(df.rows)
    /\ results = <<>>
    /\ ret' = DataFrame(<<>>)
    /\ pc' = "done"
    /\ UNCHANGED <<df, is_valid, errors, idx, results, warnings, ev_over, ev_under, best_bet_info, stats, args, out,
                   session_state, page, previous>>

\* lines 235-237: no record survived
ReturnNoResults ==
    /\ pc = "loop"
    /\ idx = Len(df.rows)
    /\ results = <<>>
    /\ ret' = ReturnedNone
    /\ pc' = "done"
    /\ UNCHANGED <<df, is_valid, errors, idx, results, warnings, ev_over, ev_under, best_bet_info, stats, args, out,
                   session_state, page, previous>>

\* lines 239-247: the records are sorted and returned.  The sort has no
\* state and no random choice: given the records of the previous call it
\* returns the arrangement it returned then
SortAndReturn ==
    /\ pc = "loop"
    /\ idx = Len(df.rows)
    /\ results # <<>>
    /\ \E t \in SortedTables(results) :
          /\ (previous.called /\ previous.results = results) => t = previous.ret.rows
          /\ ret' = DataFrame(t)
    /\ pc' = "done"
    /\ UNCHANGED <<df, is_valid, errors, idx, results, warnings, ev_over, ev_under, best_bet_info, stats, args, out,
                   session_state, page, previous>>

\* the caller hands the returned table to get_summary_statistics
Summarize ==
    /\ pc = "done"
    /\ ret.kind = "DataFrame"
    /\ stats' = get_summary_statistics(ret.rows)
    /\ pc' = "summarized"
    /\ UNCHANGED <<df, is_valid, errors, idx, results, warnings, ret,
                   ev_over, ev_under, best_bet_info, args, out,
                   session_state, page, previous>>

Next ==
    \/ ValidateReject
    \/ ValidateAccept
    \/ ProcessRow
    \/ SkipRow
    \/ ReturnNoResults
    \/ SortAndReturn
    \/ Summarize

Spec == Init /\ [][Next]_vars

(***************************************************************************)
(* determine_best_bet called on its own.                                   *)
(***************************************************************************)
EvInputs == (-MaxEv) .. MaxEv

InitBestBet ==
    /\ df = Batch({}, <<>>)
    /\ pc = "call"
    /\ is_valid = FALSE
    /\ errors = <<>>
    /\ idx = 0
    /\ results = <<>>
    /\ warnings = <<>>
    /\ ret = Pending
    /\ ev_over \in EvInputs
    /\ ev_under \in EvInputs
    /\ best_bet_info = NoInfo
    /\ stats = NoStats
    /\ args = NoArgs
    /\ out = NoArgs
    /\ session_state = InitialSession
    /\ page = BlankPage
    /\ previous = NoCall

CallDetermineBestBet ==
    /\ pc = "call"
    /\ best_bet_info' = determine_best_bet(ev_over, ev_under)
    /\ pc' = "returned"
    /\ UNCHANGED <<df, is_valid, errors, idx, results, warnings, ret, ev_over, ev_under, stats, args, out,
                   session_state, page, previous>>

NextBestBet == CallDetermineBestBet

SpecBestBet == InitBestBet /\ [][NextBestBet]_vars

(***************************************************************************)
(* get_summary_statistics called on its own.                               *)
(***************************************************************************)
MaxResults == 5

\* the best_ev values 0.10, -0.05, 0.00, 0.20, -0.10
ScenarioEvs == {1000, -500, 0, 2000, -1000}

SummaryRow(ev) ==
    [best_ev |-> ev, is_profitable |-> ev > 0,
     best_bet |-> IF ev >= 1000 THEN "Over" ELSE "Under",
     line |-> 3500000, avg_kills |-> 38]

SummaryTables ==
    UNION {[1 .. n -> {SummaryRow(ev) : ev \in ScenarioEvs}] : n \in 0 .. MaxResults}

\* the variables a direct call of a function leaves at their initial value
IdleEngine ==
    /\ df = Batch({}, <<>>)
    /\ is_valid = FALSE
    /\ errors = <<>>
    /\ idx = 0
    /\ results = <<>>
    /\ warnings = <<>>
    /\ ret = Pending
    /\ ev_over = 0
    /\ ev_under = 0
    /\ best_bet_info = NoInfo
    /\ stats = NoStats
    /\ session_state = InitialSession
    /\ page = BlankPage
    /\ previous = NoCall

engine_vars == <<df, is_valid, errors, idx, results, warnings, ret,
                 ev_over, ev_under, best_bet_info, stats,
                 session_state, page, previous>>

InitSummary ==
    /\ IdleEngine
    /\ pc = "call"
    /\ args \in {[results_df |-> t] : t \in SummaryTables}
    /\ out = NoArgs

CallSummary ==
    /\ pc = "call"
    /\ out' = get_summary_statistics(args.results_df)
    /\ pc' = "returned"
    /\ UNCHANGED <<engine_vars, args>>

NextSummary == CallSummary

SpecSummary == InitSummary /\ [][NextSummary]_vars

(***************************************************************************)
(* calculate_poisson_probabilities called on its own, on two lines.        *)
(***************************************************************************)
MaxLineInt == 5

\* the lines n, n + 0.5 and n + 0.999999 for the integers n up to MaxLineInt
PoissonLines == {n * LineScale + f : n \in 0 .. MaxLineInt, f \in {0, 500000, 999999}}

InitPoisson ==
    /\ IdleEngine
    /\ pc = "call"
    /\ args \in {[avg_kills |-> r, line1 |-> l1, line2 |-> l2] :
                    r \in {20, 38}, l1 \in PoissonLines, l2 \in PoissonLines}
    /\ out = NoArgs

CallPoisson ==
    /\ pc = "call"
    /\ out' = <<calculate_poisson_probabilities(args.avg_kills, args.line1),
                calculate_poisson_probabilities(args.avg_kills, args.line2)>>
    /\ pc' = "returned"
    /\ UNCHANGED <<engine_vars, args>>

NextPoisson == CallPoisson

SpecPoisson == InitPoisson /\ [][NextPoisson]_vars

(***************************************************************************)
(* calculate_expected_value called on its own, on two probabilities and    *)
(* two odds.                                                               *)
(***************************************************************************)
\* odds whose implied probability 1/odds is exact in ProbScale
EvOdds == {125, 160, 200, 250, 400}

\* 0, 1, the implied probabilities of EvOdds and two neighbours of 0.5
EvProbs == {0, 250000, 400000, 499999, 500000, 500001, 625000, 800000, ProbScale}

InitExpectedValue ==
    /\ IdleEngine
    /\ pc = "call"
    /\ args \in {[p1 |-> p1, p2 |-> p2, odds1 |-> o1, odds2 |-> o2] :
                    p1 \in EvProbs, p2 \in EvProbs, o1 \in EvOdds, o2 \in EvOdds}
    /\ out = NoArgs

CallExpectedValue ==
    /\ pc = "call"
    /\ out' = [p1_odds1 |-> calculate_expected_value(args.p1, args.odds1),
               p2_odds1 |-> calculate_expected_value(args.p2, args.odds1),
               p1_odds2 |-> calculate_expected_value(args.p1, args.odds2),
               implied1 |-> odds_to_implied_probability(args.odds1)]
    /\ pc' = "returned"
    /\ UNCHANGED <<engine_vars, args>>

NextExpectedValue == CallExpectedValue

SpecExpectedValue == InitExpectedValue /\ [][NextExpectedValue]_vars

(***************************************************************************)
(* The dashboard (streamlit_app.py, main): every press of the analysis     *)
(* button runs the script once, which calls analyze_betting_opportunities  *)
(* on the input of that run and then renders the page.                     *)
(***************************************************************************)
\* the rows of the dashboard's inputs: the scenario row, a row whose scoring
\* raises and a row with an odds of 1.0
DashRows ==
    { RowA,
      Row(Num(38), Num(185), Inf, Num(195), Inf),
      [RowA EXCEPT !["odds_over"] = Num(100)] }

DashBatches == {Batch(required_columns, rows) : rows \in RowSeqs(DashRows) \ {<<>>}}

\* the text of st.error at line 345
MsgGeneric ==
    [msg |-> "Error en el analisis. Revisa los datos de entrada.", cols |-> {}, rows |-> {}]

\* lines 347-385: the results of the session are rendered when there are any
RenderedPage(session, message, diagnostics) ==
    LET shown == session.analysis_performed /\ session.results_df.kind = "DataFrame"
    IN  [message |-> message,
         diagnostics |-> diagnostics,
         table |-> IF shown THEN session.results_df ELSE ReturnedNone,
         stats |-> IF shown THEN get_summary_statistics(session.results_df.rows) ELSE NoStats]

InitDashboard ==
    /\ df \in DashBatches
    /\ pc = "idle"
    /\ is_valid = FALSE
    /\ errors = <<>>
    /\ idx = 0
    /\ results = <<>>
    /\ warnings = <<>>
    /\ ret = Pending
    /\ ev_over = 0
    /\ ev_under = 0
    /\ best_bet_info = NoInfo
    /\ stats = NoStats
    /\ args = NoArgs
    /\ out = NoArgs
    /\ session_state = InitialSession
    /\ page = BlankPage
    /\ previous = NoCall

\* a call that goes on from the loop position the previous call left
PressAnalyzeKeepsPosition ==
    /\ pc = "idle"
    /\ \E d \in DashBatches : df' = d
    /\ previous' = IF ret.kind = "pending" THEN previous
                   ELSE [called |-> TRUE, df |-> df, results |-> results, ret |-> ret]
    /\ is_valid' = FALSE
    /\ errors' = <<>>
    /\ results' = <<>>
    /\ warnings' = <<>>
    /\ ret' = Pending
    /\ ev_over' = 0
    /\ ev_under' = 0
    /\ best_bet_info' = NoInfo
    /\ page' = BlankPage
    /\ pc' = "start"
    /\ UNCHANGED <<idx, stats, args, out, session_state>>

\* lines 335-338: the button is pressed on the input of this run; a new
\* model is built and analyze_betting_opportunities is called, with the
\* fresh locals of a new call
PressAnalyze ==
    /\ pc = "idle"
    /\ \E d \in DashBatches : df' = d
    /\ previous' = IF ret.kind = "pending" THEN previous
                   ELSE [called |-> TRUE, df |-> df, results |-> results, ret |-> ret]
    /\ is_valid' = FALSE
    /\ errors' = <<>>
    /\ idx' = 0
    /\ results' = <<>>
    /\ warnings' = <<>>
    /\ ret' = Pending
    /\ ev_over' = 0
    /\ ev_under' = 0
    /\ best_bet_info' = NoInfo
    /\ page' = BlankPage
    /\ pc' = "start"
    /\ UNCHANGED <<stats, args, out, session_state>>

\* lines 340-385: the call returned; the session keeps a table that is not
\* None, a message is shown and the results of the session are rendered
Render ==
    /\ pc = "done"
    /\ LET session == IF ret.kind = "DataFrame"
                      THEN [analysis_performed |-> TRUE, results_df |-> ret]
                      ELSE session_state
       IN  /\ session_state' = session
           /\ page' = IF ret.kind = "DataFrame"
                      THEN RenderedPage(session, "success", <<>>)
                      ELSE RenderedPage(session, "error", <<MsgGeneric>>)
    /\ pc' = "idle"
    /\ UNCHANGED <<df, is_valid, errors, idx, results, warnings, ret,
                   ev_over, ev_under, best_bet_info, stats, args, out, previous>>

\* a run of the script in which the button is not pressed
Rerun ==
    /\ pc = "idle"
    /\ page' = RenderedPage(session_state, "none", <<>>)
    /\ UNCHANGED <<df, pc, is_valid, errors, idx, results, warnings, ret,
                   ev_over, ev_under, best_bet_info, stats, args, out,
                   session_state, previous>>

NextDashboard ==
    \/ PressAnalyze
    \/ ValidateReject
    \/ ValidateAccept
    \/ ProcessRow
    \/ SkipRow
    \/ ReturnNoResults
    \/ SortAndReturn
    \/ Render
    \/ Rerun

SpecDashboard == InitDashboard /\ [][NextDashboard]_vars

(***************************************************************************)
(* load_cuotas (cuotas_module.py): the odds file is read, its columns are  *)
(* checked, its data cleaned and then validated.  A text cell is           *)
(* [k |-> "text"] (v = 0 for the text 'nan'), "blank" (only white space),  *)
(* "empty" (the text '') or "nan" (a missing value).                       *)
(***************************************************************************)
REQUIRED_COLUMNS == <<"partido", "jugador", "linea", "cuota_over", "cuota_under">>

text_columns == <<"partido", "jugador">>

numeric_columns == <<"linea", "cuota_over", "cuota_under">>

Range(seq) == {seq[j] : j \in 1 .. Len(seq)}

Text(v) == [k |-> "text", v |-> v]

BlankText == [k |-> "blank", v |-> 0]

EmptyText == [k |-> "empty", v |-> 0]

\* the diagnostics and warnings of the loader
CuotasMsg(msg, col) == [msg |-> msg, cols |-> col, rows |-> {}]

\* validate_columns: (valid, errors) and the warning it logs
validate_columns(d) ==
    LET missing_columns == Range(REQUIRED_COLUMNS) \ d.columns
        extra_columns == d.columns \ Range(REQUIRED_COLUMNS)
        errs == IF missing_columns # {}
                THEN <<CuotasMsg("Columnas faltantes", missing_columns)>> ELSE <<>>
    IN  [valid |-> Len(errs) = 0,
         errors |-> errs,
         warnings |-> IF extra_columns # {}
                      THEN <<CuotasMsg("Columnas adicionales encontradas", extra_columns)>>
                      ELSE <<>>]

\* .astype(str).str.strip() of a text cell.  str(nan) is the text 'nan' with
\* the object columns of pandas before 3.0; a pandas whose astype(str) gives
\* its string dtype keeps the missing value (keeps_missing)
CleanText(cell, keeps_missing) ==
    IF cell.k = "nan" THEN (IF keeps_missing THEN cell ELSE Text(0))
    ELSE IF cell.k = "blank" THEN EmptyText
    ELSE cell

\* clean_and_convert_data, for a table that has the required columns
clean_and_convert_data(d, keeps_missing) ==
    [columns |-> Range(REQUIRED_COLUMNS),
     rows |-> [i \in 1 .. Len(d.rows) |->
                 [c \in Range(REQUIRED_COLUMNS) |->
                     IF c \in Range(text_columns)
                     THEN CleanText(d.rows[i][c], keeps_missing)
                     ELSE CoerceCell(d.rows[i][c])]]]

\* the messages of validate_data_types for one text column
TextColumnErrors(d, col) ==
    (IF \E i \in RowIndex(d) : d.rows[i][col].k = "nan"
     THEN <<CuotasMsg("contiene valores nulos", {col})>> ELSE <<>>)
    \o (IF \E i \in RowIndex(d) : d.rows[i][col].k \in {"blank", "empty"}
        THEN <<CuotasMsg("contiene valores vacios", {col})>> ELSE <<>>)

\* the messages of validate_data_types for one numeric column
NumericColumnErrors(d, col) ==
    LET original_null == \E i \in RowIndex(d) : d.rows[i][col].k = "nan"
        valid_numeric == {d.rows[i][col].v : i \in {r \in RowIndex(d) : d.rows[r][col].k \in {"num", "str"}}}
    IN  (IF (\E i \in RowIndex(d) : IsNull(d.rows[i][col])) /\ ~original_null
         THEN <<[msg |-> "contiene valores no numericos", cols |-> {col},
                 rows |-> {i \in RowIndex(d) : d.rows[i][col].k = "bad"}]>>
         ELSE <<>>)
        \o (IF original_null THEN <<CuotasMsg("contiene valores nulos", {col})>> ELSE <<>>)
        \o (IF col = "linea"
            THEN (IF \E x \in valid_numeric : x < 0
                  THEN <<CuotasMsg("contiene valores negativos", {col})>> ELSE <<>>)
                 \o (IF \E x \in valid_numeric : x > 50 * LineScale
                     THEN <<CuotasMsg("contiene valores excesivamente altos", {col})>> ELSE <<>>)
            ELSE (IF \E x \in valid_numeric : x <= OddsScale
                  THEN <<CuotasMsg("contiene cuotas <= 1.0", {col})>> ELSE <<>>)
                 \o (IF \E x \in valid_numeric : x > 10 * OddsScale
                     THEN <<CuotasMsg("contiene cuotas excesivamente altas", {col})>> ELSE <<>>))

\* validate_data_types
validate_data_types(d) ==
    IF ~(Range(REQUIRED_COLUMNS) \subseteq d.columns)
    THEN [valid |-> FALSE, errors |-> <<CuotasMsg("No se pueden validar tipos de datos", {})>>]
    ELSE LET errs == TextColumnErrors(d, "partido") \o TextColumnErrors(d, "jugador")
                     \o NumericColumnErrors(d, "linea")
                     \o NumericColumnErrors(d, "cuota_over")
                     \o NumericColumnErrors(d, "cuota_under")
         IN  [valid |-> Len(errs) = 0, errors |-> errs]

\* what load_cuotas hands back: the table or None, with what it logged
Loaded(table, errs, warns) == [ret |-> table, errors |-> errs, warnings |-> warns]

\* load_cuotas on a file that pd.read_csv can parse
load_cuotas(file, keeps_missing) ==
    IF ~file.exists
    THEN Loaded(ReturnedNone, <<CuotasMsg("El archivo no existe", {})>>, <<>>)
    ELSE IF Len(file.table.rows) = 0
    THEN Loaded(ReturnedNone, <<CuotasMsg("El archivo esta vacio", {})>>, <<>>)
    ELSE LET structure == validate_columns(file.table)
         IN  IF ~structure.valid
             THEN Loaded(ReturnedNone, structure.errors, structure.warnings)
             ELSE LET df_clean == clean_and_convert_data(file.table, keeps_missing)
                      data == validate_data_types(df_clean)
                  IN  IF ~data.valid
                      THEN Loaded(ReturnedNone, data.errors, structure.warnings)
                      ELSE Loaded(DataFrame(df_clean.rows), <<>>, structure.warnings)

\* a row of the odds file
CuotasRow(partido, jugador, linea, cuota_over, cuota_under) ==
    [partido |-> partido, jugador |-> jugador, linea |-> linea,
     cuota_over |-> cuota_over, cuota_under |-> cuota_under]

\* {'G2 vs FNC', 'Caps', 5.5, 1.85, 1.85}
CuotasRowA == CuotasRow(Text(1), Text(2), Num(5500000), Num(185), Num(185))

\* the values that replace one cell of CuotasRowA
CuotasAlternatives(col) ==
    CASE col = "partido" -> {BlankText, NaN}
      [] col = "jugador" -> {BlankText, NaN, Text(0)}
      [] col = "linea" -> {Num(-1000000), Num(60000000), Bad, NaN}
      [] col = "cuota_over" -> {Num(100), Num(1100), NaN}
      [] col = "cuota_under" -> {Bad}

CuotasRows ==
    {CuotasRowA}
    \cup UNION { { [CuotasRowA EXCEPT ![REQUIRED_COLUMNS[j]] = v] :
                      v \in CuotasAlternatives(REQUIRED_COLUMNS[j]) } :
                 j \in 1 .. Len(REQUIRED_COLUMNS) }

CuotasColumnSets ==
    { Range(REQUIRED_COLUMNS),
      Range(REQUIRED_COLUMNS) \cup {"extra"},
      Range(REQUIRED_COLUMNS) \ {"jugador"} }

\* the table with the given columns whose i-th row holds rows[i]
CuotasTable(columns, rows) ==
    [columns |-> columns,
     rows |-> [i \in 1 .. Len(rows) |->
                 [c \in columns |-> IF c = "extra" THEN Text(3) ELSE rows[i][c]]]]

CuotasFiles ==
    { [exists |-> TRUE, table |-> CuotasTable(cols, rows)] :
          cols \in CuotasColumnSets, rows \in RowSeqs(CuotasRows) }
    \cup { [exists |-> FALSE, table |-> CuotasTable({}, <<>>)] }

InitCuotas ==
    /\ IdleEngine
    /\ pc = "call"
    /\ args \in {[file |-> f] : f \in CuotasFiles}
    /\ out = NoArgs

CallLoadCuotas ==
    /\ pc = "call"
    /\ \E keeps_missing \in BOOLEAN : out' = load_cuotas(args.file, keeps_missing)
    /\ pc' = "returned"
    /\ UNCHANGED <<engine_vars, args>>

NextCuotas == CallLoadCuotas

SpecCuotas == InitCuotas /\ [][NextCuotas]_vars

(***************************************************************************)
(* extract_player_kills (lol_scraper.py): the tables of a statistics page  *)
(* are searched for the K column and the rows of the team's players.  A    *)
(* table is [has_k, rows]; a row is [player, kills], kills being the text  *)
(* of the K cell (Str(v) a number in tenths, Bad any other text).          *)
(***************************************************************************)
MaxTables == 2

\* the name of the team's player and a name that is not of the team
TeamPlayer == Player(1)

OtherPlayer == Player(2)

\* float(kills_text.replace(',', '.')) raises ValueError
KillsRaises(cell) == cell.k = "bad"

\* the records the loop of lines 177-229 appends for the rows of one table
RECURSIVE TableRecords(_, _, _)
TableRecords(rows, team_players, i) ==
    IF i > Len(rows) THEN <<>>
    ELSE LET row == rows[i]
             rest == TableRecords(rows, team_players, i + 1)
         IN  IF row.player \notin team_players THEN rest
             ELSE IF KillsRaises(row.kills) THEN rest
             ELSE IF 0 <= row.kills.v /\ row.kills.v <= 20 * RateScale
                  THEN <<[player |-> row.player, avg_kills |-> row.kills.v]>> \o rest
                  ELSE rest

\* the loop over the tables: a table without a K header is passed over and
\* the first table that gave a record ends the search
RECURSIVE PageRecords(_, _, _)
PageRecords(tables, team_players, t) ==
    IF t > Len(tables) THEN <<>>
    ELSE IF ~tables[t].has_k THEN PageRecords(tables, team_players, t + 1)
    ELSE LET found == TableRecords(tables[t].rows, team_players, 1)
         IN  IF Len(found) > 0 THEN found
             ELSE PageRecords(tables, team_players, t + 1)

extract_player_kills(tables, team_players) ==
    IF team_players = {} THEN <<>>
    ELSE PageRecords(tables, team_players, 1)

\* the rows of the pages: the team's player with a K cell of 0, 3.8, 20,
\* 20.1, -1 and '-', and a player of another team
ScrapedRows ==
    { [player |-> TeamPlayer, kills |-> c] :
          c \in {Str(0), Str(38), Str(200), Str(201), Str(-10), Bad} }
    \cup { [player |-> OtherPlayer, kills |-> Str(38)] }

ScrapedTables ==
    { [has_k |-> TRUE, rows |-> rows] : rows \in RowSeqs(ScrapedRows) }
    \cup { [has_k |-> FALSE, rows |-> <<>>] }

ScrapedPages == UNION {[1 .. n -> ScrapedTables] : n \in 1 .. MaxTables}

InitScraper ==
    /\ IdleEngine
    /\ pc = "call"
    /\ args \in {[tables |-> p, team_players |-> tp] :
                    p \in ScrapedPages, tp \in {{}, {TeamPlayer}}}
    /\ out = NoArgs

CallExtractPlayerKills ==
    /\ pc = "call"
    /\ out' = extract_player_kills(args.tables, args.team_players)
    /\ pc' = "returned"
    /\ UNCHANGED <<engine_vars, args>>

NextScraper == CallExtractPlayerKills

SpecScraper == InitScraper /\ [][NextScraper]_vars

(***************************************************************************)
(* Properties                                                              *)
(***************************************************************************)
Validated == pc \in {"loop", "done"}

\* a non-empty batch with all required columns
FullNonEmpty(d) == required_columns \subseteq d.columns /\ Len(d.rows) > 0

\* the cell holds a number, as a float or as numeric text
HasValue(cell) == cell.k \in {"num", "str"}

RateViolation(row) == HasValue(row["avg_kills"]) /\ row["avg_kills"].v <= 0

OddsViolation(row) ==
    \/ HasValue(row["odds_over"]) /\ row["odds_over"].v <= OddsScale
    \/ HasValue(row["odds_under"]) /\ row["odds_under"].v <= OddsScale

LineViolation(row) ==
    \/ HasValue(row["line_over"]) /\ row["line_over"].v < 0
    \/ HasValue(row["line_under"]) /\ row["line_under"].v < 0

\* the two lines are numbers that differ by more than the absolute tolerance
MismatchBeyondAtol(row) ==
    /\ HasValue(row["line_over"]) /\ HasValue(row["line_under"])
    /\ Abs(row["line_over"].v - row["line_under"].v) > Atol

HasMsg(m) == \E j \in 1 .. Len(errors) : errors[j] = m

\* C1: whenever validate_data reports the batch invalid,
\* analyze_betting_opportunities scores no record and returns None.
C1_InvalidYieldsNone ==
    (Validated /\ ~is_valid) =>
        /\ pc = "done" /\ ret = ReturnedNone
        /\ results = <<>> /\ idx = 0 /\ warnings = <<>>

\* an invalid batch, some row of which could have been scored, returned None
C1_Witness ==
    /\ pc = "done" /\ ~is_valid /\ ret = ReturnedNone
    /\ FullNonEmpty(df)
    /\ \E i \in RowIndex(df) : ~ScoreRow(df.rows[i]).raised

\* C2: a non-empty batch with all required columns in which some row has
\* rate <= 0, an odds <= 1.0 or a line < 0 is invalid, with diagnostics.
C2_ViolationRejected ==
    (/\ Validated /\ FullNonEmpty(df)
     /\ \E i \in RowIndex(df) :
           RateViolation(df.rows[i]) \/ OddsViolation(df.rows[i]) \/ LineViolation(df.rows[i]))
    => (~is_valid /\ Len(errors) > 0)

\* a batch whose only defect is an odds of exactly 1.0 was rejected
C2_Witness ==
    /\ pc = "done" /\ FullNonEmpty(df) /\ ~is_valid
    /\ errors = <<MsgOdds>>
    /\ \A i \in RowIndex(df) :
          df.rows[i]["odds_over"].v >= OddsScale /\ df.rows[i]["odds_under"].v >= OddsScale

\* C3: every batch in which some row's line_over and line_under differ by
\* more than the absolute tolerance 1e-6 is rejected.
C3_MismatchRejected ==
    (/\ Validated /\ FullNonEmpty(df)
     /\ \E i \in RowIndex(df) : MismatchBeyondAtol(df.rows[i]))
    => ~is_valid

\* the rules some row of the batch violates, by the message that reports them
NonNumericCols(d) == {c \in required_columns \ {"player"} : NullIndices(d, c) # {}}

\* C4: the diagnostics hold a message for every rule that some row violates
\* (non-numeric field, rate <= 0, odds <= 1.0, line < 0, line mismatch).
C4_AllViolationsCollected ==
    (Validated /\ FullNonEmpty(df)) =>
        /\ \A c \in NonNumericCols(df) : \E j \in 1 .. Len(errors) :
               errors[j].msg = "Valores no numericos" /\ c \in errors[j].cols
        /\ (\E i \in RowIndex(df) : RateViolation(df.rows[i])) => HasMsg(MsgRate)
        /\ (\E i \in RowIndex(df) : OddsViolation(df.rows[i])) => HasMsg(MsgOdds)
        /\ (\E i \in RowIndex(df) : LineViolation(df.rows[i])) => HasMsg(MsgLines)
        /\ (\E i \in RowIndex(df) :
               /\ HasValue(df.rows[i]["line_over"]) /\ HasValue(df.rows[i]["line_under"])
               /\ ~IsClose(df.rows[i]["line_over"], df.rows[i]["line_under"]))
           => HasMsg(MsgMismatch)

\* C5: every row that violates a business rule is named by a diagnostic.
C5_ViolatingRowsNamed ==
    (Validated /\ FullNonEmpty(df)) =>
        \A i \in RowIndex(df) :
            (\/ RateViolation(df.rows[i]) \/ OddsViolation(df.rows[i])
             \/ LineViolation(df.rows[i]) \/ MismatchBeyondAtol(df.rows[i]))
            => \E j \in 1 .. Len(errors) : i \in errors[j].rows

\* C6: every empty batch is rejected with the emptiness diagnostic and not
\* with the missing-columns diagnostic.
C6_EmptyReportedAsEmpty ==
    (Validated /\ Len(df.rows) = 0) => (~is_valid /\ errors = <<MsgEmpty>>)

\* C7: when a required column is absent, validate_data returns invalid with
\* exactly the missing-columns diagnostic.
C7_MissingColumnsFailFast ==
    (Validated /\ required_columns \ df.columns # {}) =>
        (~is_valid /\ errors = <<MsgMissing(required_columns \ df.columns)>>)

\* a batch that lacks a column, and is empty or holds a row that breaks a
\* business rule, got the missing-columns diagnostic alone
C7_Witness ==
    /\ pc = "done" /\ required_columns \ df.columns # {}
    /\ "avg_kills" \in df.columns
    /\ Len(df.rows) = MaxRows
    /\ \E i \in RowIndex(df) : RateViolation(df.rows[i])
    /\ Len(errors) = 1 /\ errors[1].msg = "Columnas faltantes"

\* C8: in every row of the returned table is_profitable is true iff the
\* row's best_ev is > 0.
C8_ProfitableIffBestEvPositive ==
    (pc = "done" /\ ret.kind = "DataFrame") =>
        \A i \in 1 .. Len(ret.rows) :
            ret.rows[i].is_profitable <=> (ret.rows[i].best_ev > 0)

\* C9: determine_best_bet returns Over exactly when ev_over > ev_under and
\* Under otherwise, so Under on an exact tie.
C9_OverIffStrictlyGreater ==
    (pc = "returned") =>
        /\ best_bet_info.best_bet \in {"Over", "Under"}
        /\ (best_bet_info.best_bet = "Over") <=> (ev_over > ev_under)

\* determine_best_bet returned Under on an exact tie
C9_Witness ==
    pc = "returned" /\ ev_over = ev_under /\ best_bet_info.best_bet = "Under"

\* C10: the returned table is ordered by best_ev descending.
C10_SortedDescending ==
    (pc = "done" /\ ret.kind = "DataFrame") =>
        \A i \in 1 .. Len(ret.rows) - 1 : ret.rows[i].best_ev >= ret.rows[i + 1].best_ev

\* a table whose records were scored in ascending order came back reordered
C10_Witness ==
    /\ pc = "done" /\ ret.kind = "DataFrame"
    /\ Len(results) = MaxRows
    /\ \A i \in 1 .. Len(results) - 1 : results[i].best_ev < results[i + 1].best_ev
    /\ ret.rows # results
    /\ ret.rows \in TablePermutations(results)

\* the rows of the batch whose scoring raises, and those it does not
Raising(d) == {i \in RowIndex(d) : ScoreRow(d.rows[i]).raised}

Surviving(d) == RowIndex(d) \ Raising(d)

Returned == pc = "done" /\ ret.kind = "DataFrame"

\* C11: the batch-level sort is stable: two records with equal best_ev come
\* back in the relative order they have in the input batch.
C11_SortStable ==
    Returned =>
        \A i, j \in 1 .. Len(ret.rows) :
            (i < j /\ ret.rows[i].best_ev = ret.rows[j].best_ev)
            => ret.rows[i].player.v < ret.rows[j].player.v

\* C13: a record whose scoring raises is skipped with a warning, and every
\* other record of the batch appears exactly once in the returned table.
C13_FailureIsolated ==
    (pc = "done" /\ is_valid) =>
        /\ idx = Len(df.rows)
        /\ Len(warnings) = Cardinality(Raising(df))
        /\ {warnings[j] : j \in 1 .. Len(warnings)} = {RowWarning(i) : i \in Raising(df)}
        /\ Surviving(df) # {} =>
              /\ ret.kind = "DataFrame"
              /\ Len(ret.rows) = Cardinality(Surviving(df))
              /\ \A i \in Surviving(df) :
                    Cardinality({j \in 1 .. Len(ret.rows) : ret.rows[j].player = Player(i)}) = 1

\* the first record raised and a later one is in the returned table
C13_Witness ==
    /\ Returned /\ is_valid
    /\ 1 \in Raising(df)
    /\ warnings = <<RowWarning(1)>>
    /\ \E i \in Surviving(df) : i > 1 /\ \E j \in 1 .. Len(ret.rows) : ret.rows[j].player = Player(i)

\* C14: for a batch that passed validation the call returns None iff no
\* record survived, and it never returns an empty table.
C14_NoneIffNoSurvivor ==
    (pc = "done" /\ is_valid) =>
        /\ (ret = ReturnedNone) <=> (Surviving(df) = {})
        /\ ret.kind = "DataFrame" => Len(ret.rows) > 0

\* a validated batch all of whose records raised gave None
C14_Witness ==
    /\ pc = "done" /\ is_valid /\ ret = ReturnedNone
    /\ Len(df.rows) = MaxRows /\ Surviving(df) = {}

\* C17: in every result row p_over + p_under is 1, for the computed and for
\* the reported 4-decimal values, and both lie in [0, 1].
C17_ProbabilitiesComplementary ==
    Returned =>
        /\ \A j \in 1 .. Len(ret.rows) :
              /\ ret.rows[j].p_over + ret.rows[j].p_under = 10^4
              /\ ret.rows[j].p_over \in 0 .. 10^4
              /\ ret.rows[j].p_under \in 0 .. 10^4
        /\ \A i \in Surviving(df) :
              LET probs == calculate_poisson_probabilities(df.rows[i]["avg_kills"].v,
                                                           df.rows[i]["line_over"].v)
              IN  /\ probs.p_over + probs.p_under = ProbScale
                  /\ probs.p_over \in 0 .. ProbScale
                  /\ probs.p_under \in 0 .. ProbScale

\* a row whose two probabilities were rounded in opposite directions
C17_Witness ==
    /\ Returned
    /\ \E i \in Surviving(df), j \in 1 .. Len(ret.rows) :
          LET probs == calculate_poisson_probabilities(df.rows[i]["avg_kills"].v,
                                                       df.rows[i]["line_over"].v)
          IN  /\ ret.rows[j].player = Player(i)
              /\ ret.rows[j].p_under * 100 > probs.p_under
              /\ ret.rows[j].p_over * 100 < probs.p_over

\* C20: in every result row best_ev is the EV of the recommended side and
\* the larger of EV_over and EV_under of that row.
C20_BestEvIsEvOfBestSide ==
    Returned =>
        \A j \in 1 .. Len(ret.rows) :
            LET r == ret.rows[j]
            IN  /\ r.best_bet \in {"Over", "Under"}
                /\ r.best_ev = (IF r.best_bet = "Over" THEN r.EV_over ELSE r.EV_under)
                /\ r.best_ev >= r.EV_over /\ r.best_ev >= r.EV_under

\* a table with an Over row and an Under row, each with two different EVs
C20_Witness ==
    /\ Returned
    /\ \E i, j \in 1 .. Len(ret.rows) :
          /\ ret.rows[i].best_bet = "Over" /\ ret.rows[i].EV_over > ret.rows[i].EV_under
          /\ ret.rows[j].best_bet = "Under" /\ ret.rows[j].EV_under > ret.rows[j].EV_over

\* the table the call returned, also after the caller summarised it
HasTable == pc \in {"done", "summarized"} /\ ret.kind = "DataFrame"

\* the best EV of input row i as determine_best_bet returned it, unrounded
FullBestEv(i) == ScoreRow(df.rows[i]).info.best_ev

FullBestEvs == {FullBestEv(i) : i \in Surviving(df)}

\* C12: rounding is for display only: the order of the table and the summary
\* statistics are those of the full-precision best EVs.
C12_FullPrecisionKept ==
    /\ HasTable =>
          \A j \in 1 .. Len(ret.rows) - 1 :
              FullBestEv(ret.rows[j].player.v) >= FullBestEv(ret.rows[j + 1].player.v)
    /\ pc = "summarized" =>
          /\ stats.best_ev * 10^4 = CHOOSE x \in FullBestEvs : \A y \in FullBestEvs : x >= y
          /\ stats.worst_ev * 10^4 = CHOOSE x \in FullBestEvs : \A y \in FullBestEvs : x <= y
          /\ stats.avg_ev.num * 10^4 =
                 SumTo([j \in 1 .. Len(ret.rows) |-> FullBestEv(ret.rows[j].player.v)],
                       Len(ret.rows))
          /\ stats.profitable_opportunities =
                 Cardinality({i \in Surviving(df) : FullBestEv(i) > 0})

\* C15: get_summary_statistics on an empty result list returns a structure
\* that reports a total of 0 and a profitability rate of 0.
C15_EmptySummaryZeroed ==
    (pc = "returned" /\ Len(args.results_df) = 0) =>
        /\ "total_players" \in DOMAIN out
        /\ "profitability_rate" \in DOMAIN out
        /\ out["total_players"] = 0
        /\ out["profitability_rate"].num = 0

\* C16: for a non-empty table the summary reports profitable = the number
\* of rows with best_ev > 0, rate = profitable / total, best = the maximum
\* and worst = the minimum best_ev.
C16_SummaryOfTable ==
    pc = "summarized" =>
        LET positive == Cardinality({j \in 1 .. Len(ret.rows) : ret.rows[j].best_ev > 0})
        IN  /\ stats.total_players = Len(ret.rows)
            /\ stats.profitable_opportunities = positive
            /\ stats.profitability_rate = Ratio(positive, Len(ret.rows))
            /\ \A j \in 1 .. Len(ret.rows) :
                  stats.worst_ev <= ret.rows[j].best_ev /\ ret.rows[j].best_ev <= stats.best_ev
            /\ \E j \in 1 .. Len(ret.rows) : ret.rows[j].best_ev = stats.best_ev
            /\ \E j \in 1 .. Len(ret.rows) : ret.rows[j].best_ev = stats.worst_ev

\* C18: the probabilities depend on the line through floor(line) alone: two
\* lines with the same floor give the same probabilities, a larger floor
\* gives a larger p_under (the integer line n counts n itself as under), and
\* p_over is the complement of p_under.
C18_LineOnlyThroughFloor ==
    (pc = "returned") =>
        /\ (args.line1 \div LineScale = args.line2 \div LineScale) => out[1] = out[2]
        /\ (args.line1 \div LineScale < args.line2 \div LineScale) =>
              (out[1].p_under < out[2].p_under /\ out[1].p_over > out[2].p_over)
        /\ out[1].p_over = ProbScale - out[1].p_under
        /\ (args.avg_kills = 38 /\ args.line1 = 3500000) => out[1].p_under = 473485

\* the lines 4 and 4.5 gave the same probabilities, and 3.999999 a smaller p_under
C18_Witness ==
    /\ pc = "returned"
    /\ args.line1 = 4 * LineScale /\ args.line2 = 4 * LineScale + 500000
    /\ out[1] = out[2]
    /\ out[1].p_under > calculate_poisson_probabilities(args.avg_kills, 3999999).p_under

\* C19: calculate_expected_value is p * odds - 1: non-decreasing in p and in
\* odds, 0 when p = 1/odds, > 0 exactly when p > 1/odds, -1 at p = 0 and
\* odds - 1 at p = 1.
C19_ExpectedValue ==
    (pc = "returned") =>
        /\ args.p1 <= args.p2 => out.p1_odds1 <= out.p2_odds1
        /\ args.odds1 <= args.odds2 => out.p1_odds1 <= out.p1_odds2
        /\ args.p1 = out.implied1 => out.p1_odds1 = 0
        /\ (out.p1_odds1 > 0) <=> (args.p1 > out.implied1)
        /\ args.p1 = 0 => out.p1_odds1 = -EvScale
        /\ args.p1 = ProbScale => out.p1_odds1 = (args.odds1 - OddsScale) * ProbScale

\* the EV was 0 at the implied probability and positive above it
C19_Witness ==
    /\ pc = "returned"
    /\ args.p1 = out.implied1 /\ out.p1_odds1 = 0
    /\ args.p2 > args.p1 /\ out.p2_odds1 > 0

\* C22: validate_data and analyze_betting_opportunities leave the input
\* batch unchanged, whether it is accepted, rejected or has records skipped.
C22_InputUnchanged == [][df' = df]_vars

\* a rejected batch that holds text a coercion in place would have rewritten
C22_Witness ==
    /\ pc = "done" /\ ~is_valid /\ FullNonEmpty(df)
    /\ \E i \in RowIndex(df) : df.rows[i]["avg_kills"].k \in {"str", "bad"}

\* the columns of the batch that are not required ones
ExtraColumns(d) == d.columns \ required_columns

\* the batch without its extra columns
WithoutExtra(d) ==
    [columns |-> d.columns \cap required_columns,
     rows |-> [i \in 1 .. Len(d.rows) |->
                 [c \in d.columns \cap required_columns |-> d.rows[i][c]]]]

\* a warning that names the extra columns
ExtraColumnsWarning(cols) ==
    [msg |-> "Columnas adicionales encontradas", cols |-> cols, rows |-> {}]

\* C23: a batch with extra columns is not rejected for that reason, the
\* extra columns do not affect the result, and a warning names them.
C23_ExtraColumnsWarned ==
    (Validated /\ ExtraColumns(df) # {}) =>
        /\ is_valid = validate_data(WithoutExtra(df)).valid
        /\ errors = validate_data(WithoutExtra(df)).errors
        /\ \A i \in RowIndex(df) : ScoreRow(df.rows[i]) = ScoreRow(WithoutExtra(df).rows[i])
        /\ \E j \in 1 .. Len(warnings) : warnings[j] = ExtraColumnsWarning(ExtraColumns(df))

\* the part of C23 that the engine meets: validation and scoring of a batch
\* with extra columns are those of the batch without them
ExtraColumnsIgnored ==
    (Validated /\ ExtraColumns(df) # {}) =>
        /\ is_valid = validate_data(WithoutExtra(df)).valid
        /\ errors = validate_data(WithoutExtra(df)).errors
        /\ \A i \in RowIndex(df) : ScoreRow(df.rows[i]) = ScoreRow(WithoutExtra(df).rows[i])

\* the single-row batch {rate 3.8, line 3.5, odds 1.85 / 1.95}
ScenarioBatch == Batch(required_columns, <<RowA>>)

\* x is v up to one unit of the fourth decimal
Approx(x, v) == Abs(x - v) <= 1

\* C26: the single-row batch {3.8, 3.5, 1.85, 3.5, 1.95} is accepted and
\* yields p_under ~ 0.4733, p_over ~ 0.5267, EV_over ~ -0.0256,
\* EV_under ~ -0.0771, best side Over and is_profitable false.
C26_ScenarioAsStated ==
    (pc = "done" /\ df = ScenarioBatch) =>
        /\ is_valid /\ ret.kind = "DataFrame" /\ Len(ret.rows) = 1
        /\ Approx(ret.rows[1].p_under, 4733)
        /\ Approx(ret.rows[1].p_over, 5267)
        /\ Approx(ret.rows[1].EV_over, -256)
        /\ Approx(ret.rows[1].EV_under, -771)
        /\ ret.rows[1].best_bet = "Over"
        /\ ~ret.rows[1].is_profitable

\* C26 as amended: the same batch is accepted and yields p_under 0.4735,
\* p_over 0.5265, EV_over -0.0259, EV_under -0.0767, Over, not profitable.
C26_ScenarioAmended ==
    (pc = "done" /\ df = ScenarioBatch) =>
        /\ is_valid /\ ret.kind = "DataFrame" /\ Len(ret.rows) = 1
        /\ ret.rows[1].p_under = 4735
        /\ ret.rows[1].p_over = 5265
        /\ ret.rows[1].EV_over = -259
        /\ ret.rows[1].EV_under = -767
        /\ ret.rows[1].best_bet = "Over"
        /\ ret.rows[1].best_ev = -259
        /\ ~ret.rows[1].is_profitable

\* the scenario batch was analysed and its one record returned
C26_Witness ==
    /\ pc = "done" /\ df = ScenarioBatch
    /\ ret.kind = "DataFrame" /\ Len(ret.rows) = 1
    /\ ret.rows[1].player = Player(1)

\* every numeric field of the row holds a number, as a float or as text,
\* and the row meets every business rule with two equal lines
RowMeetsRules(row) ==
    /\ \A j \in 1 .. Len(numeric_cols) : HasValue(row[numeric_cols[j]])
    /\ row["avg_kills"].v > 0
    /\ row["odds_over"].v > OddsScale /\ row["odds_under"].v > OddsScale
    /\ row["line_over"].v >= 0 /\ row["line_under"].v >= 0
    /\ row["line_over"].v = row["line_under"].v

\* C27: validate_data accepts, with no diagnostics, every non-empty batch
\* with all required columns whose rows meet every rule, also when numeric
\* fields arrive as numeric text.
C27_RuleMeetingAccepted ==
    (Validated /\ FullNonEmpty(df) /\ \A i \in RowIndex(df) : RowMeetsRules(df.rows[i]))
    => (is_valid /\ errors = <<>>)

\* the row scored with line_under in the place of line_over
ScoredWithLineUnder(row) == ScoreRow([row EXCEPT !["line_over"] = row["line_under"]])

\* C28: for every record of a validated batch floor(line_over) =
\* floor(line_under), and scoring with line_under gives the same
\* probabilities, EVs and best side.
C28_ThresholdsInterchangeable ==
    (Validated /\ is_valid) =>
        \A i \in Surviving(df) :
            LET row == df.rows[i]
                a == ScoreRow(row).result
                b == ScoredWithLineUnder(row).result
            IN  /\ row["line_over"].v \div LineScale = row["line_under"].v \div LineScale
                /\ ~ScoredWithLineUnder(row).raised
                /\ a.p_over = b.p_over /\ a.p_under = b.p_under
                /\ a.EV_over = b.EV_over /\ a.EV_under = b.EV_under
                /\ a.best_bet = b.best_bet /\ a.best_ev = b.best_ev

C24_InvalidRunRendersNoResults ==
    (pc = "idle" /\ page.message = "error" /\ ~is_valid) =>
        (page.table = ReturnedNone /\ page.stats = NoStats)

\* C25: when validation fails, every diagnostic of validate_data is shown
\* to the user by the presentation layer.
C25_DiagnosticsSurfaced ==
    (pc = "idle" /\ page.message = "error" /\ ~is_valid) =>
        \A j \in 1 .. Len(errors) :
            \E k \in 1 .. Len(page.diagnostics) : page.diagnostics[k] = errors[j]

\* some partido or jugador value of the file is missing
HasMissingText(table) ==
    \E i \in RowIndex(table), c \in Range(text_columns) \cap table.columns :
        table.rows[i][c].k = "nan"

\* C29: load_cuotas returns None for every odds file in which some partido
\* or jugador value is missing.
C29_MissingTextRejected ==
    (pc = "returned" /\ HasMissingText(args.file.table)) => out.ret = ReturnedNone

\* the one-row batch of a scraped record with the odds and lines of RowA
BatchOfRecord(rec) ==
    Batch(required_columns, <<[RowA EXCEPT !["avg_kills"] = Num(rec.avg_kills)]>>)

\* C30: every record extract_player_kills delivers has avg_kills > 0, so no
\* scraped record makes a batch fail the rule rate > 0 of validate_data.
C30_ScrapedRatePositive ==
    (pc = "returned") =>
        \A j \in 1 .. Len(out) :
            /\ out[j].avg_kills > 0
            /\ validate_data(BatchOfRecord(out[j])).valid

====
